---- MODULE Spec2Model ----
(***************************************************************************)
(* Verification model of the ALPSCore "alea" accumulator core:             *)
(*   cov_data / cov_acc / cov_result   (covariance.cpp)                    *)
(*   mpi_reducer                       (alps/alea/mpi.hpp)                 *)
(*   value/vector/eigen adapters       (alps/alea/computed.hpp)            *)
(*   check_valid                       (alps/alea/internal/util.hpp)       *)
(* for the instantiation cov_acc<double>.                                  *)
(***************************************************************************)
EXTENDS Integers, Sequences, FiniteSets, TLC

(***************************************************************************)
(* Bounds of the model                                                     *)
(***************************************************************************)
\* total number of successful operator<< calls in one accumulator run
MaxAdds == 3
\* largest number of raw samples behind one worker's local Result
MaxLocal == 2
\* number of participants of a reduction is 2..MaxRanks
MaxRanks == 2
\* number of levels of a binning Result is 1..MaxLevels
MaxLevels == 2

\* entries of the samples
Vals == {1, 2}
\* vector widths of accumulators and samples ("size"); samples of the other
\* widths, and of width 0, are the mismatching ones
Sizes == {1, 2}
\* bundle sizes ("bundle_size" of the constructor)
BundleSizes == {1, 2}

\* a null raw pointer to an accumulator, and an empty unique_ptr<cov_data>
nullptr == "nullptr"
NULL == [null |-> TRUE]
NoExc == "none"
finalized_accumulator == "finalized_accumulator"
size_mismatch == "size_mismatch"
failed_operation == "failed_operation"
out_of_range == "out_of_range"

(***************************************************************************)
(* double arithmetic.  A value is <<n, d>>: the rational n/d in lowest     *)
(* terms with d > 0, or a non-finite IEEE value when d = 0:                *)
(* <<0,0>> is NaN, <<1,0>> is +inf, <<-1,0>> is -inf.                      *)
(***************************************************************************)
RECURSIVE GCD(_, _)
GCD(a, b) == IF b = 0 THEN a ELSE GCD(b, a % b)

Abs(x) == IF x < 0 THEN -x ELSE x
Sgn(x) == IF x < 0 THEN -1 ELSE IF x > 0 THEN 1 ELSE 0

Norm(n, d) ==
    IF d = 0 THEN <<Sgn(n), 0>>
    ELSE LET g == GCD(Abs(n), Abs(d))
         IN  <<Sgn(d) * (n \div g), Abs(d) \div g>>

NaN == <<0, 0>>
Zero == <<0, 1>>
Num(i) == <<i, 1>>
IsFinite(a) == a[2] # 0

QAdd(a, b) ==
    IF IsFinite(a) /\ IsFinite(b) THEN Norm(a[1] * b[2] + b[1] * a[2], a[2] * b[2])
    ELSE IF a = NaN \/ b = NaN THEN NaN
    ELSE IF IsFinite(a) THEN b
    ELSE IF IsFinite(b) THEN a
    ELSE IF a = b THEN a ELSE NaN
QNeg(a) == <<-a[1], a[2]>>
QSub(a, b) == QAdd(a, QNeg(b))
QMul(a, b) == Norm(a[1] * b[1], a[2] * b[2])
QDiv(a, b) == Norm(a[1] * b[2] * Sgn(IF b[1] = 0 THEN 1 ELSE b[1]), a[2] * Abs(b[1]))

\* Eigen column / matrix expressions, element-wise
VecAdd(u, v) == [i \in DOMAIN u |-> QAdd(u[i], v[i])]
VecScale(u, c) == [i \in DOMAIN u |-> QMul(u[i], c)]
VecDiv(u, c) == [i \in DOMAIN u |-> QDiv(u[i], c)]
MatAdd(A, B) == [i \in DOMAIN A |-> [j \in DOMAIN A[i] |-> QAdd(A[i][j], B[i][j])]]
MatSub(A, B) == [i \in DOMAIN A |-> [j \in DOMAIN A[i] |-> QSub(A[i][j], B[i][j])]]
MatScale(A, c) == [i \in DOMAIN A |-> [j \in DOMAIN A[i] |-> QMul(A[i][j], c)]]
MatDiv(A, c) == [i \in DOMAIN A |-> [j \in DOMAIN A[i] |-> QDiv(A[i][j], c)]]
ZeroVec(n) == [i \in 1..n |-> Zero]
ZeroMat(n) == [i \in 1..n |-> [j \in 1..n |-> Zero]]

\* internal::outer<bind<Str,double> >(a, b): a * b^T
outer(a, b) == [i \in DOMAIN a |-> [j \in DOMAIN b |-> QMul(a[i], b[j])]]

\* size_t is an unsigned type: count_ - 1 wraps around at count_ == 0.
\* The model checker's integers are 32 bits wide, so the modulus 2^64 of
\* size_t is scaled down to 2^16; no count of the model comes near it.
SizeTMod == 65536
SizeTSub(a, b) == (a - b) % SizeTMod

(***************************************************************************)
(* cov_data: the storage {data_, data2_, count_}                           *)
(***************************************************************************)
cov_data_reset(d) ==
    [data |-> [i \in DOMAIN d.data |-> Zero],
     data2 |-> [i \in DOMAIN d.data2 |-> [j \in DOMAIN d.data2[i] |-> Zero]],
     count |-> 0]

cov_data(size) ==
    cov_data_reset([data |-> ZeroVec(size), data2 |-> ZeroMat(size), count |-> 0])

\* convert_to_mean dividing the second moment by count_ instead of count_ - 1
convert_to_mean_biased(d) ==
    LET data1 == VecDiv(d.data, Num(d.count))
        sub == MatSub(d.data2, MatScale(outer(data1, data1), Num(d.count)))
    IN  [data |-> data1, data2 |-> MatDiv(sub, Num(d.count)), count |-> d.count]

convert_to_mean(d) ==
    LET data1 == VecDiv(d.data, Num(d.count))
        sub == MatSub(d.data2, MatScale(outer(data1, data1), Num(d.count)))
    IN  [data |-> data1,
         data2 |-> MatDiv(sub, Num(SizeTSub(d.count, 1))),
         count |-> d.count]

\* convert_to_sum scaling the second moment by count_ instead of count_ - 1
convert_to_sum_by_count(d) ==
    LET scaled == MatScale(d.data2, Num(d.count))
    IN  [data |-> VecScale(d.data, Num(d.count)),
         data2 |-> MatAdd(scaled, MatScale(outer(d.data, d.data), Num(d.count))),
         count |-> d.count]

convert_to_sum(d) ==
    LET scaled == MatScale(d.data2, Num(SizeTSub(d.count, 1)))
    IN  [data |-> VecScale(d.data, Num(d.count)),
         data2 |-> MatAdd(scaled, MatScale(outer(d.data, d.data), Num(d.count))),
         count |-> d.count]

(***************************************************************************)
(* bundle: the partial sum current_ {sum_, count_, target_}                *)
(***************************************************************************)
bundle(size, target) == [sum |-> ZeroVec(size), count |-> 0, target |-> target]
bundle_reset(b) == [b EXCEPT !.sum = [i \in DOMAIN b.sum |-> Zero], !.count = 0]
is_full(b) == b.count >= b.target
bundle_size(b) == Len(b.sum)

(***************************************************************************)
(* cov_acc {store_, current_, uplevel_}.  Accumulators live in a heap      *)
(* h: identity -> object, since uplevel_ is a raw pointer to another one.  *)
(***************************************************************************)
cov_acc(size, bsize) ==
    [store |-> cov_data(size), current |-> bundle(size, bsize), uplevel |-> nullptr]

valid(a) == a.store # NULL
size(a) == bundle_size(a.current)

\* internal::check_valid: TRUE when it throws finalized_accumulator
check_valid_throws(a) == ~valid(a)

\* computed<T>::add_to of value_adapter / vector_adapter / eigen_adapter:
\* TRUE when it throws size_mismatch for a sink of out_size entries
add_to_throws(x, out_size) == out_size # Len(x)
add_to(x, out) == VecAdd(out, [i \in DOMAIN x |-> Num(x[i])])
\* the same for a column<T> forwarded to the uplevel accumulator
add_col_to(m, out) == VecAdd(out, m)

Ret(h, exc) == [h |-> h, exc |-> exc]

RECURSIVE shl_col(_, _, _)
\* cov_acc::add_bundle on object id of heap h
\* add_bundle crediting the store with the samples of the bundle instead of
\* with one bundle
add_bundle_count_samples(h, id) ==
    LET a == h[id]
        mean == VecDiv(a.current.sum, Num(a.current.count))
        st == [data |-> VecAdd(a.store.data, mean),
               data2 |-> MatAdd(a.store.data2, outer(mean, mean)),
               count |-> a.store.count + a.current.count]
        h1 == [h EXCEPT ![id] = [a EXCEPT !.current.sum = mean, !.store = st]]
        up == IF a.uplevel # nullptr THEN shl_col(h1, a.uplevel, mean) ELSE Ret(h1, NoExc)
    IN  IF up.exc # NoExc THEN up
        ELSE Ret([up.h EXCEPT ![id].current = bundle_reset(@)], NoExc)

\* add_bundle leaving the completed bundle in current_
add_bundle_keep_buffer(h, id) ==
    LET a == h[id]
        mean == VecDiv(a.current.sum, Num(a.current.count))
        st == [data |-> VecAdd(a.store.data, mean),
               data2 |-> MatAdd(a.store.data2, outer(mean, mean)),
               count |-> a.store.count + 1]
        h1 == [h EXCEPT ![id] = [a EXCEPT !.current.sum = mean, !.store = st]]
    IN  IF a.uplevel # nullptr THEN shl_col(h1, a.uplevel, mean) ELSE Ret(h1, NoExc)

add_bundle(h, id) ==
    LET a == h[id]
        mean == VecDiv(a.current.sum, Num(a.current.count))
        st == [data |-> VecAdd(a.store.data, mean),
               data2 |-> MatAdd(a.store.data2, outer(mean, mean)),
               count |-> a.store.count + 1]
        h1 == [h EXCEPT ![id] = [a EXCEPT !.current.sum = mean, !.store = st]]
        up == IF a.uplevel # nullptr THEN shl_col(h1, a.uplevel, mean) ELSE Ret(h1, NoExc)
    IN  IF up.exc # NoExc THEN up
        ELSE Ret([up.h EXCEPT ![id].current = bundle_reset(@)], NoExc)

\* cov_acc::operator<< for a column (the batch mean sent to uplevel_)
shl_col(h, id, m) ==
    IF check_valid_throws(h[id]) THEN Ret(h, finalized_accumulator)
    ELSE IF add_to_throws(m, size(h[id])) THEN Ret(h, size_mismatch)
    ELSE LET h1 == [h EXCEPT ![id].current.sum = add_col_to(m, @),
                             ![id].current.count = @ + 1]
         IN  IF is_full(h1[id].current) THEN add_bundle(h1, id) ELSE Ret(h1, NoExc)

\* operator<< counting the sample before add_to has accepted it
shl_count_first(h, id, x) ==
    IF check_valid_throws(h[id]) THEN Ret(h, finalized_accumulator)
    ELSE LET h0 == [h EXCEPT ![id].current.count = @ + 1]
         IN  IF add_to_throws(x, size(h[id])) THEN Ret(h0, size_mismatch)
             ELSE LET h1 == [h0 EXCEPT ![id].current.sum = add_to(x, @)]
                  IN  IF is_full(h1[id].current) THEN add_bundle(h1, id) ELSE Ret(h1, NoExc)

\* cov_acc::operator<<(const computed<value_type> &source)
shl(h, id, x) ==
    IF check_valid_throws(h[id]) THEN Ret(h, finalized_accumulator)
    ELSE IF add_to_throws(x, size(h[id])) THEN Ret(h, size_mismatch)
    ELSE LET h1 == [h EXCEPT ![id].current.sum = add_to(x, @),
                             ![id].current.count = @ + 1]
         IN  IF is_full(h1[id].current) THEN add_bundle(h1, id) ELSE Ret(h1, NoExc)

\* result() converting the live storage instead of the copy
result_in_place(a) ==
    IF check_valid_throws(a) THEN [acc |-> a, ret |-> NULL, exc |-> finalized_accumulator]
    ELSE [acc |-> [a EXCEPT !.store = convert_to_mean(@)],
          ret |-> convert_to_mean(a.store), exc |-> NoExc]

\* cov_acc::result() const: the accumulator afterwards, the returned
\* cov_result's store_ (a converted copy of *store_), the exception
result(a) ==
    IF check_valid_throws(a) THEN [acc |-> a, ret |-> NULL, exc |-> finalized_accumulator]
    ELSE [acc |-> a, ret |-> convert_to_mean(a.store), exc |-> NoExc]

\* finalize_to copying the storage instead of swapping it out
finalize_to_copy(a) ==
    IF check_valid_throws(a) THEN [acc |-> a, ret |-> NULL, exc |-> finalized_accumulator]
    ELSE [acc |-> a, ret |-> convert_to_mean(a.store), exc |-> NoExc]

\* finalize_to folding the incomplete bundle into the storage first
finalize_to_flush(a) ==
    IF check_valid_throws(a) THEN [acc |-> a, ret |-> NULL, exc |-> finalized_accumulator]
    ELSE LET f == IF a.current.count > 0
                  THEN add_bundle([o \in {"o"} |-> [a EXCEPT !.uplevel = nullptr]], "o").h["o"]
                  ELSE a
         IN  [acc |-> [f EXCEPT !.store = NULL, !.uplevel = a.uplevel],
              ret |-> convert_to_mean(f.store), exc |-> NoExc]

\* cov_acc::finalize_to(result): the accumulator afterwards, result.store_
finalize_to(a) ==
    IF check_valid_throws(a) THEN [acc |-> a, ret |-> NULL, exc |-> finalized_accumulator]
    ELSE [acc |-> [a EXCEPT !.store = NULL],
          ret |-> convert_to_mean(a.store), exc |-> NoExc]

\* cov_acc::finalize()
finalize(a) == finalize_to(a)

\* reset() without current_.reset()
reset_keep_bundle(a) ==
    IF valid(a) THEN [a EXCEPT !.store = cov_data_reset(@)]
    ELSE [a EXCEPT !.store = cov_data(size(a))]

\* reset() with the branches exchanged: releases the storage of a live object
reset_release(a) ==
    LET cur == bundle_reset(a.current)
    IN  IF valid(a) THEN [a EXCEPT !.current = cur, !.store = NULL]
        ELSE [a EXCEPT !.current = cur, !.store = cov_data(size(a))]

\* reset() that only resets a live object and leaves a finalized one as it is
reset_live_only(a) ==
    LET cur == bundle_reset(a.current)
    IN  IF valid(a) THEN [a EXCEPT !.current = cur, !.store = cov_data_reset(@)]
        ELSE [a EXCEPT !.current = cur]

\* cov_acc::reset()
reset(a) ==
    LET cur == bundle_reset(a.current)
    IN  IF valid(a) THEN [a EXCEPT !.current = cur, !.store = cov_data_reset(@)]
        ELSE [a EXCEPT !.current = cur, !.store = cov_data(size(a))]

(***************************************************************************)
(* cov_result {store_} and its reduction through an mpi_reducer            *)
(***************************************************************************)
\* cov_result::valid() for a store_ pointer
result_valid(st) == st # NULL

\* the three buffers handed to reducer::reduce, in the order of the calls
Buffers == <<"data", "data2", "count">>

\* sink<T>::size() of the buffer handed to the reducer
sink_size(st, buf) ==
    CASE buf = "data" -> Len(st.data)
      [] buf = "data2" -> Len(st.data2) * Len(st.data2)
      [] buf = "count" -> 1

\* stderror() answering for a Result whose storage has been released
stderror_unchecked(st) ==
    IF ~result_valid(st) THEN [exc |-> NoExc, ret |-> [sq_error |-> <<>>]]
    ELSE [exc |-> NoExc,
          ret |-> [sq_error |-> [i \in DOMAIN st.data |->
                                   QDiv(st.data2[i][i], Num(st.count))]]]

\* cov_result::stderror(): check_valid, then diag(data2) / count, of which the
\* caller gets the square roots; the squares are what is kept here
stderror(st) ==
    IF ~result_valid(st) THEN [exc |-> finalized_accumulator, ret |-> NULL]
    ELSE [exc |-> NoExc,
          ret |-> [sq_error |-> [i \in DOMAIN st.data |->
                                   QDiv(st.data2[i][i], Num(st.count))]]]

\* MPI_SUM on two buffers of the same kind
mpi_sum(buf, a, b) ==
    CASE buf = "data" -> VecAdd(a, b)
      [] buf = "data2" -> MatAdd(a, b)
      [] buf = "count" -> a + b

\* mpi::checked(retcode): TRUE when it throws failed_operation
checked_throws(retcode) == retcode # "MPI_SUCCESS"

\* mpi_reducer::am_root for the process of that rank
am_root(rank, root_) == rank = root_

\* a setup that reports the result on every process
have_result_everywhere(rank, root_) == TRUE

\* mpi_reducer::get_setup().have_result
have_result(rank, root_) == am_root(rank, root_)

\* a commit() that is a barrier: it returns when all processes have entered
commit_barrier(entered, all) == entered = all

\* mpi_reducer::commit() const { }: it returns at once, whichever of all the
\* processes have entered it
commit_returns(entered, all) == TRUE

\* commit called by every phase of a split reduction
do_commit_any(pre_commit, post_commit) == pre_commit \/ post_commit

\* the condition "pre_commit && post_commit" under which reduce calls commit
do_commit(pre_commit, post_commit) == pre_commit /\ post_commit

Step(op, lvl, buf, by) == [op |-> op, lvl |-> lvl, buf |-> buf, by |-> by]

\* reduce() that does not hand the sample count to the reducer
reduce_steps_no_count(lvl, pre_commit, post_commit) ==
    <<Step("check_valid", lvl, "-", "cov_result")>>
    \o (IF pre_commit
        THEN <<Step("convert_to_sum", lvl, "-", "cov_result"),
               Step("reduce", lvl, Buffers[1], "cov_result"),
               Step("reduce", lvl, Buffers[2], "cov_result")>>
        ELSE <<>>)
    \o (IF do_commit(pre_commit, post_commit)
        THEN <<Step("commit", lvl, "-", "cov_result")>> ELSE <<>>)
    \o (IF post_commit
        THEN <<Step("post_commit", lvl, "-", "cov_result")>> ELSE <<>>)

\* reduce() that commits before the sample count is handed to the reducer
reduce_steps_commit_early(lvl, pre_commit, post_commit) ==
    <<Step("check_valid", lvl, "-", "cov_result")>>
    \o (IF pre_commit
        THEN <<Step("convert_to_sum", lvl, "-", "cov_result"),
               Step("reduce", lvl, Buffers[1], "cov_result"),
               Step("reduce", lvl, Buffers[2], "cov_result")>>
        ELSE <<>>)
    \o (IF do_commit(pre_commit, post_commit)
        THEN <<Step("commit", lvl, "-", "cov_result")>> ELSE <<>>)
    \o (IF pre_commit THEN <<Step("reduce", lvl, Buffers[3], "cov_result")>> ELSE <<>>)
    \o (IF post_commit
        THEN <<Step("post_commit", lvl, "-", "cov_result")>> ELSE <<>>)

\* cov_result::reduce(r, pre_commit, post_commit) on the Result of level lvl
\* as the sequence of the steps it takes
reduce_steps(lvl, pre_commit, post_commit) ==
    <<Step("check_valid", lvl, "-", "cov_result")>>
    \o (IF pre_commit
        THEN <<Step("convert_to_sum", lvl, "-", "cov_result"),
               Step("reduce", lvl, Buffers[1], "cov_result"),
               Step("reduce", lvl, Buffers[2], "cov_result"),
               Step("reduce", lvl, Buffers[3], "cov_result")>>
        ELSE <<>>)
    \o (IF do_commit(pre_commit, post_commit)
        THEN <<Step("commit", lvl, "-", "cov_result")>> ELSE <<>>)
    \o (IF post_commit
        THEN <<Step("post_commit", lvl, "-", "cov_result")>> ELSE <<>>)

\* cov_result::reduce(r): all three phases
cov_reduce_steps == reduce_steps(1, TRUE, TRUE)

RECURSIVE level_steps(_, _, _, _)
\* for (i = from; i <= nlevel; ++i) level_[i].reduce(r, pre, post)
level_steps(from, nlevel, pre_commit, post_commit) ==
    IF from > nlevel THEN <<>>
    ELSE reduce_steps(from, pre_commit, post_commit)
         \o level_steps(from + 1, nlevel, pre_commit, post_commit)

\* autocorr_result::reduce(r) = reduce(r, true, true) on nlevel levels
autocorr_reduce_steps(nlevel) ==
    <<Step("check_levels", 0, "-", "autocorr_result")>>
    \o level_steps(1, nlevel, TRUE, FALSE)
    \o <<Step("commit", 0, "-", "autocorr_result")>>
    \o level_steps(1, nlevel, FALSE, TRUE)

\* autocorr_result::valid(): !level_.empty()
autocorr_valid(levels) == Len(levels) > 0

RECURSIVE fold_shl(_, _)
\* the accumulator after acc << x1 << x2 << ...
fold_shl(a, xs) ==
    IF xs = <<>> THEN a
    ELSE fold_shl(shl([o \in {"o"} |-> a], "o", Head(xs)).h["o"], Tail(xs))

\* the store_ of the Result a worker gets from cov_acc(size, bsize),
\* the samples xs and finalize()
local_result(sz, bsize, xs) == finalize(fold_shl(cov_acc(sz, bsize), xs)).ret

(***************************************************************************)
(* State                                                                   *)
(***************************************************************************)
VARIABLES
    accs,    \* the accumulator objects: identity -> cov_acc
    last,    \* the call made last: operation, object, width of the sample
             \* passed, exception thrown, Result returned, counts before it
    nadds,   \* number of operator<< calls that stored their sample
    kind,    \* what the participants reduce: "cov" (one cov_result) or
             \* "autocorr" (an autocorr_result with a vector of levels)
    root,    \* root_ of the mpi_reducer
    res,     \* rank -> the Result of that process: the store_ of its levels
    orig,    \* rank -> the Result of that process before reduce was called
    prog,    \* rank -> the steps of reduce() the process has still to take
    status,  \* rank -> "running", "done" or the exception reduce() threw
    sent,    \* rank -> the buffers the process has passed to MPI_Reduce
    log,     \* rank -> the calls the process has made on the reducer
    track,   \* what the caller of "acc" has seen since its construction or
             \* last reset: n, the operator<< calls that returned normally,
             \* and threw, whether one threw after it had stored its sample;
             \* for the binning engine also xs, the samples it has taken
    eng,     \* the autocorr_acc (the binning engine)
    binres,  \* the autocorr_result the caller holds, NULL before it has one
    seg,     \* a path segment s with encode_segment(s) and the decoding of it
    ar       \* the hdf5 archive: _context and the serialize calls in progress

accVars == <<accs, last, nadds>>
redVars == <<kind, root, res, orig, prog, status, sent, log>>
binVars == <<eng, binres>>
arVars == <<seg, ar>>
vars == <<accs, last, nadds, kind, root, res, orig, prog, status, sent, log, track, eng, binres,
          seg, ar>>

AccIds == {"acc", "up"}

\* the samples a caller can pass: vectors of the widths 0, 1 and 2
Samples == {<<>>} \cup {<<v>> : v \in Vals} \cup {<<1, 2>>, <<2, 1>>}

\* pre: store_->count() and current_.count() of the object before the call
Pre(a) == IF valid(a) THEN <<a.store.count, a.current.count>> ELSE <<-1, a.current.count>>
Call(op, id, arg, exc, ret, pre) ==
    [op |-> op, id |-> id, arg |-> arg, exc |-> exc, ret |-> ret, pre |-> pre]

AccInit ==
    /\ \E s \in Sizes, b \in BundleSizes, bu \in BundleSizes :
          accs = [id \in AccIds |-> IF id = "acc" THEN cov_acc(s, b) ELSE cov_acc(s, bu)]
    /\ last = Call("construct", "acc", 0, NoExc, NULL, <<0, 0>>)
    /\ nadds = 0
    /\ seg = NULL /\ ar = NULL
    /\ track = [n |-> 0, threw |-> FALSE]
    /\ kind = "none" /\ root = 0
    /\ res = <<>> /\ orig = <<>> /\ prog = <<>> /\ status = <<>> /\ sent = <<>> /\ log = <<>>
    /\ eng = NULL /\ binres = NULL

\* acc << x
Add(id, x) ==
    /\ nadds < MaxAdds
    /\ LET r == shl(accs, id, x)
       IN  /\ accs' = r.h
           /\ last' = Call("add", id, Len(x), r.exc, NULL, Pre(accs[id]))
           /\ nadds' = IF r.h # accs THEN nadds + 1 ELSE nadds
           /\ track' = [n |-> IF r.exc = NoExc THEN track.n + 1 ELSE track.n,
                        threw |-> track.threw \/ (r.exc # NoExc /\ r.h # accs)]
    /\ UNCHANGED <<redVars, binVars, arVars>>

\* acc.result()
Result(id) ==
    LET r == result(accs[id])
    IN  /\ accs' = [accs EXCEPT ![id] = r.acc]
        /\ last' = Call("result", id, 0, r.exc, r.ret, Pre(accs[id]))
        /\ UNCHANGED <<nadds, track, redVars, binVars, arVars>>

\* acc.finalize()
Finalize(id) ==
    LET r == finalize(accs[id])
    IN  /\ accs' = [accs EXCEPT ![id] = r.acc]
        /\ last' = Call("finalize", id, 0, r.exc, r.ret, Pre(accs[id]))
        /\ UNCHANGED <<nadds, track, redVars, binVars, arVars>>

\* acc.reset()
Reset(id) ==
    /\ accs' = [accs EXCEPT ![id] = reset(@)]
    /\ last' = Call("reset", id, 0, NoExc, NULL, Pre(accs[id]))
    /\ track' = IF id = "acc" THEN [n |-> 0, threw |-> FALSE] ELSE track
    /\ UNCHANGED <<nadds, redVars, binVars, arVars>>

\* acc.uplevel(up): link the accumulator to a coarser one
SetUplevel ==
    /\ accs["acc"].uplevel = nullptr
    /\ accs' = [accs EXCEPT !["acc"].uplevel = "up"]
    /\ last' = Call("uplevel", "acc", 0, NoExc, NULL, Pre(accs["acc"]))
    /\ UNCHANGED <<nadds, track, redVars, binVars, arVars>>

AccNext ==
    \/ \E x \in Samples : Add("acc", x)
    \/ \E id \in AccIds : Result(id)
    \/ \E id \in AccIds : Finalize(id)
    \/ \E id \in AccIds : Reset(id)
    \/ SetUplevel

SpecAcc == AccInit /\ [][AccNext]_vars

(***************************************************************************)
(* Reduction of the Results of the processes of a communicator             *)
(***************************************************************************)
Ranks == DOMAIN res

\* widths of the Results that are reduced
RedSizes == {0, 1}

\* the n samples of width sz a worker has accumulated: 1, 2, 1, ...
ramp(sz, n) == [k \in 1..n |-> [i \in 1..sz |-> IF k % 2 = 1 THEN 1 ELSE 2]]

RECURSIVE pow2(_)
pow2(i) == IF i = 0 THEN 1 ELSE 2 * pow2(i - 1)

\* the levels of the Result of a worker that accumulated n samples
local_levels(knd, sz, nlevel, n) ==
    IF knd = "cov" THEN <<local_result(sz, 1, ramp(sz, n))>>
    ELSE [l \in 1..nlevel |-> local_result(sz, pow2(l - 1), ramp(sz, n))]

\* the number of samples of the worker of rank p: the same c on every worker
\* (d = 0) or c, c + 1, ... wrapping around at MaxLocal (d = 1)
local_count(c, d, p) == (c + p * d) % (MaxLocal + 1)

RedInit ==
    /\ accs = [id \in AccIds |-> cov_acc(1, 1)]
    /\ last = Call("construct", "acc", 0, NoExc, NULL, <<0, 0>>)
    /\ nadds = 0
    /\ seg = NULL /\ ar = NULL
    /\ track = [n |-> 0, threw |-> FALSE]
    /\ eng = NULL /\ binres = NULL
    /\ \E n \in 2..MaxRanks, knd \in {"cov", "autocorr"}, nlevel \in 0..MaxLevels, sz \in RedSizes :
          /\ knd = "cov" => nlevel = 1
          /\ kind = knd
          /\ root \in 0..(n - 1)
          /\ \E c \in 0..MaxLocal, d \in {0, 1} :
                res = [p \in 0..(n - 1) |-> local_levels(knd, sz, nlevel, local_count(c, d, p))]
          /\ prog = [p \in 0..(n - 1) |->
                       IF knd = "cov" THEN cov_reduce_steps ELSE autocorr_reduce_steps(nlevel)]
          /\ status = [p \in 0..(n - 1) |-> "running"]
          /\ sent = [p \in 0..(n - 1) |-> <<>>]
          /\ log = [p \in 0..(n - 1) |-> <<>>]
    /\ orig = res

Running(p) == status[p] = "running"
Cur(p) == Head(prog[p])

\* the step returns normally
Advance(p) ==
    /\ prog' = [prog EXCEPT ![p] = Tail(@)]
    /\ status' = [status EXCEPT ![p] = IF Len(prog[p]) = 1 THEN "done" ELSE @]

\* the step throws: reduce() is left
Throw(p, exc) ==
    /\ prog' = [prog EXCEPT ![p] = <<>>]
    /\ status' = [status EXCEPT ![p] = exc]

Logged(p, entry) == log' = [log EXCEPT ![p] = Append(@, entry)]

\* internal::check_valid(*this) of cov_result::reduce
CheckValid(p) ==
    /\ Running(p) /\ Cur(p).op = "check_valid"
    /\ IF result_valid(res[p][Cur(p).lvl]) THEN Advance(p) ELSE Throw(p, finalized_accumulator)
    /\ UNCHANGED <<accVars, track, binVars, kind, root, res, orig, sent, log, arVars>>

\* internal::check_valid(*this) of autocorr_result::reduce
CheckLevels(p) ==
    /\ Running(p) /\ Cur(p).op = "check_levels"
    /\ IF autocorr_valid(res[p]) THEN Advance(p) ELSE Throw(p, finalized_accumulator)
    /\ UNCHANGED <<accVars, track, binVars, kind, root, res, orig, sent, log, arVars>>

\* store_->convert_to_sum()
ConvertToSum(p) ==
    /\ Running(p) /\ Cur(p).op = "convert_to_sum"
    /\ res' = [res EXCEPT ![p][Cur(p).lvl] = convert_to_sum(@)]
    /\ Advance(p)
    /\ UNCHANGED <<accVars, track, binVars, kind, root, orig, sent, log, arVars>>

\* MPI_Reduce returns on the root once every process has passed its buffer
\* of this collective; on the other processes it returns after the send
MPI_Reduce_returns(p) ==
    am_root(p, root) => \A q \in Ranks \ {p} : Len(sent[q]) > Len(sent[p])

RECURSIVE mpi_reduce_sum(_, _, _, _)
\* the MPI_SUM of the j-th buffers of the processes qs, added to acc
mpi_reduce_sum(buf, j, qs, acc) ==
    IF qs = {} THEN acc
    ELSE LET q == CHOOSE r \in qs : \A r2 \in qs : r <= r2
         IN  mpi_reduce_sum(buf, j, qs \ {q}, mpi_sum(buf, acc, sent[q][j]))

\* r.reduce(sink) -> inplace_reduce with empty data: no MPI call
ReduceEmpty(p) ==
    /\ Running(p) /\ Cur(p).op = "reduce"
    /\ sink_size(res[p][Cur(p).lvl], Cur(p).buf) = 0
    /\ Advance(p)
    /\ Logged(p, <<"reduce", Cur(p).lvl, Cur(p).buf>>)
    /\ UNCHANGED <<accVars, track, binVars, kind, root, res, orig, sent, arVars>>

\* r.reduce(sink) -> inplace_reduce -> MPI_Reduce(..., MPI_SUM, root_, comm_)
\* returning MPI_SUCCESS
Reduce(p) ==
    /\ Running(p) /\ Cur(p).op = "reduce"
    /\ sink_size(res[p][Cur(p).lvl], Cur(p).buf) # 0
    /\ ~checked_throws("MPI_SUCCESS")
    /\ MPI_Reduce_returns(p)
    /\ LET own == res[p][Cur(p).lvl][Cur(p).buf]
           j == Len(sent[p]) + 1
       IN  /\ sent' = [sent EXCEPT ![p] = Append(@, own)]
           /\ res' = IF am_root(p, root)
                      THEN [res EXCEPT ![p][Cur(p).lvl][Cur(p).buf] =
                                mpi_reduce_sum(Cur(p).buf, j, Ranks \ {p}, own)]
                      ELSE res
    /\ Advance(p)
    /\ Logged(p, <<"reduce", Cur(p).lvl, Cur(p).buf>>)
    /\ UNCHANGED <<accVars, track, binVars, kind, root, orig, arVars>>

\* the same call with MPI_Reduce returning an error code: mpi::checked
\* throws failed_operation out of reduce(); the buffer is left as it was
ReduceFails(p) ==
    /\ Running(p) /\ Cur(p).op = "reduce"
    /\ sink_size(res[p][Cur(p).lvl], Cur(p).buf) # 0
    /\ checked_throws("MPI_ERR_OTHER")
    /\ Throw(p, failed_operation)
    /\ Logged(p, <<"reduce", Cur(p).lvl, Cur(p).buf>>)
    /\ UNCHANGED <<accVars, track, binVars, kind, root, res, orig, sent, arVars>>

\* r.commit()
Commit(p) ==
    /\ Running(p) /\ Cur(p).op = "commit"
    /\ commit_returns({q \in Ranks : Running(q) /\ Cur(q).op = "commit"}, Ranks)
    /\ Advance(p)
    /\ Logged(p, <<"commit", Cur(p).lvl, Cur(p).by>>)
    /\ UNCHANGED <<accVars, track, binVars, kind, root, res, orig, sent, arVars>>

\* the post_commit block: get_setup, then convert_to_mean or store_.reset()
PostCommit(p) ==
    /\ Running(p) /\ Cur(p).op = "post_commit"
    /\ res' = [res EXCEPT ![p][Cur(p).lvl] =
                  IF have_result(p, root) THEN convert_to_mean(@) ELSE NULL]
    /\ Advance(p)
    /\ Logged(p, <<"get_setup", Cur(p).lvl, Cur(p).by>>)
    /\ UNCHANGED <<accVars, track, binVars, kind, root, orig, sent, arVars>>

\* a further r.reduce(..., pre_commit, post_commit) on a cov_result whose
\* storage the post-commit of an earlier reduction has released
ReduceAgain(p, pre_commit, post_commit) ==
    /\ kind = "cov"
    /\ status[p] \in {"done", finalized_accumulator}
    /\ ~result_valid(res[p][1])
    /\ prog' = [prog EXCEPT ![p] = reduce_steps(1, pre_commit, post_commit)]
    /\ status' = [status EXCEPT ![p] = "running"]
    /\ UNCHANGED <<accVars, track, binVars, kind, root, res, orig, sent, log, arVars>>

\* res[p].stderror() once the reduction has ended on process p
ResultStderror(p) ==
    /\ kind = "cov"
    /\ status[p] \in {"done", finalized_accumulator}
    /\ LET r == stderror(res[p][1])
       IN  last' = Call("stderror", "res", p, r.exc, r.ret, <<0, 0>>)
    /\ UNCHANGED <<accs, nadds, track, binVars, redVars, arVars>>

RedNext ==
    \/ \E p \in Ranks : CheckValid(p)
    \/ \E p \in Ranks : CheckLevels(p)
    \/ \E p \in Ranks : ConvertToSum(p)
    \/ \E p \in Ranks : ReduceEmpty(p)
    \/ \E p \in Ranks : Reduce(p)
    \/ \E p \in Ranks : ReduceFails(p)
    \/ \E p \in Ranks : Commit(p)
    \/ \E p \in Ranks : PostCommit(p)
    \/ \E p \in Ranks, pre_commit \in BOOLEAN, post_commit \in BOOLEAN :
          ReduceAgain(p, pre_commit, post_commit)
    \/ \E p \in Ranks : ResultStderror(p)

SpecReduce == RedInit /\ [][RedNext]_vars

(***************************************************************************)
(* Properties of the accumulator (checked under SpecAcc)                   *)
(***************************************************************************)
AccOps == {"add", "result", "finalize"}

\* C1: a successful finalize() leaves valid() false, and every add
\* (operator<<), result() or finalize() on an accumulator that is invalid
\* throws finalized_accumulator and leaves the accumulator invalid.
C1_FinalizedFails ==
    [][ /\ (last'.op = "finalize" /\ last'.exc = NoExc) => ~valid(accs'[last'.id])
        /\ (last'.op \in AccOps /\ ~valid(accs[last'.id]))
              => /\ last'.exc = finalized_accumulator
                 /\ ~valid(accs'[last'.id])
                 /\ accs' = accs ]_vars

\* an add on a finalized accumulator that had stored samples was refused
C1_Witness ==
    /\ last.op = "add" /\ last.id = "acc" /\ last.exc = finalized_accumulator
    /\ ~valid(accs["acc"]) /\ nadds > 0

\* C2: result() on a valid accumulator changes nothing: storage (still in
\* sum form), bundle buffer and uplevel link of every object are the same
\* after the call, and the accumulator is still valid, so that later calls
\* start from the state they would have started from without it.
C2_ResultFrame ==
    [][ (last'.op = "result" /\ valid(accs[last'.id]))
          => /\ last'.exc = NoExc
             /\ accs' = accs
             /\ valid(accs'[last'.id]) ]_vars

\* result() returned a converted snapshot while a bundle was incomplete
C2_Witness ==
    /\ last.op = "result" /\ last.exc = NoExc /\ last.id = "acc"
    /\ accs["acc"].store.count > 1 /\ accs["acc"].current.count > 0
    /\ last.ret # accs["acc"].store

\* C3: operator<< on a valid accumulator with a sample of another width
\* throws size_mismatch and changes neither storage nor bundle buffer.
C3_SizeMismatch ==
    [][ (last'.op = "add" /\ valid(accs[last'.id]) /\ last'.arg # size(accs[last'.id]))
          => /\ last'.exc = size_mismatch
             /\ accs' = accs ]_vars

\* a mismatching sample was refused by an accumulator holding data
C3_Witness ==
    /\ last.op = "add" /\ last.exc = size_mismatch /\ last.id = "acc"
    /\ valid(accs["acc"]) /\ accs["acc"].store.count > 0 /\ accs["acc"].current.count > 0

\* C9 as stated: valid() is true from construction and changes only from
\* true to false, only in a successful finalize(), and never back.
C9_ValidOnlyFalls ==
    /\ [](last.op = "construct" => \A id \in AccIds : valid(accs[id]))
    /\ [][ \A id \in AccIds :
             valid(accs'[id]) # valid(accs[id])
               => /\ valid(accs[id]) /\ ~valid(accs'[id])
                  /\ last'.op = "finalize" /\ last'.id = id /\ last'.exc = NoExc ]_vars

\* C9 amended: valid() is true from construction, changes from true to false
\* only in a successful finalize() of that object, and changes from false to
\* true only in a reset() of that object.
C9_ValidTransitions ==
    /\ [](last.op = "construct" => \A id \in AccIds : valid(accs[id]))
    /\ [][ \A id \in AccIds :
             /\ (valid(accs[id]) /\ ~valid(accs'[id]))
                   => (last'.op = "finalize" /\ last'.id = id /\ last'.exc = NoExc)
             /\ (~valid(accs[id]) /\ valid(accs'[id]))
                   => (last'.op = "reset" /\ last'.id = id) ]_vars

\* a finalized accumulator was brought back by reset()
C9_Witness ==
    /\ last.op = "reset" /\ last.id = "acc" /\ last.pre[1] = -1
    /\ valid(accs["acc"]) /\ nadds > 0

\* C10: reset() of a valid accumulator leaves storage and bundle buffer as
\* the constructor makes them for the same size: count 0, sums and outer
\* products zero, bundle sum zero and bundle count 0, valid, same size.
C10_ResetFresh ==
    [][ (last'.op = "reset" /\ valid(accs[last'.id]))
          => LET a == accs[last'.id]
                 b == accs'[last'.id]
                 fresh == cov_acc(size(a), a.current.target)
             IN  /\ b.store = fresh.store
                 /\ b.current = fresh.current
                 /\ b.store.count = 0 /\ b.current.count = 0
                 /\ \A i \in 1..size(b) : b.store.data[i] = Zero /\ b.current.sum[i] = Zero
                 /\ \A i, j \in 1..size(b) : b.store.data2[i][j] = Zero
                 /\ valid(b)
                 /\ size(b) = size(a) ]_vars

\* reset() cleared an accumulator with completed bundles and a partial one
C10_Witness ==
    /\ last.op = "reset" /\ last.id = "acc"
    /\ last.pre[1] > 0 /\ last.pre[2] > 0
    /\ valid(accs["acc"])

(***************************************************************************)
(* Properties of the reduction (checked under SpecReduce)                  *)
(***************************************************************************)
AllDone == \A p \in Ranks : status[p] = "done"
Levels(p) == 1..Len(orig[p])

RECURSIVE total_count(_, _)
\* sum over the processes qs of the local count of level l
total_count(l, qs) ==
    IF qs = {} THEN 0
    ELSE LET q == CHOOSE r \in qs : TRUE
         IN  orig[q][l].count + total_count(l, qs \ {q})

RECURSIVE weighted_sum(_, _)
\* sum over the processes qs of count_w * mean_w of level l
weighted_sum(l, qs) ==
    IF qs = {} THEN [i \in DOMAIN orig[root][l].data |-> Zero]
    ELSE LET q == CHOOSE r \in qs : TRUE
         IN  VecAdd(VecScale(orig[q][l].data, Num(orig[q][l].count)),
                    weighted_sum(l, qs \ {q}))

\* C4: when every process has completed reduce, the root's Result has the
\* sum of the local counts as count and, the local means being defined,
\* (sum of count_w * mean_w) / (sum of count_w) as mean; for identical local
\* Results that is the local mean and k times the local count.
C4_GlobalMean ==
    AllDone =>
      \A l \in Levels(root) :
        /\ res[root][l].count = total_count(l, Ranks)
        /\ (\A q \in Ranks : orig[q][l].count > 0)
              => res[root][l].data = VecDiv(weighted_sum(l, Ranks), Num(total_count(l, Ranks)))
        /\ (\A q \in Ranks : orig[q][l] = orig[root][l] /\ orig[q][l].count > 0)
              => /\ res[root][l].data = orig[root][l].data
                 /\ res[root][l].count = Cardinality(Ranks) * orig[root][l].count

\* two workers with different counts and means were merged on the root
C4_Witness ==
    /\ AllDone /\ kind = "cov" /\ Cardinality(Ranks) = 2
    /\ \A q \in Ranks : orig[q][1].count > 0 /\ Len(orig[q][1].data) = 1
    /\ \E q \in Ranks : orig[q][1].count # orig[root][1].count
    /\ res[root][1].data # orig[root][1].data

\* C5: when every process has completed reduce, the Result of the root is
\* valid and the Result of every other process is invalid: exactly one
\* process, the one whose rank is root_, keeps a valid Result.
C5_OnlyRootValid ==
    AllDone =>
      \A l \in Levels(root) :
        /\ result_valid(res[root][l])
        /\ \A p \in Ranks \ {root} : ~result_valid(res[p][l])
        /\ Cardinality({p \in Ranks : result_valid(res[p][l])}) = 1

\* a reduction among two processes is complete
C5_Witness ==
    /\ AllDone /\ kind = "cov" /\ Cardinality(Ranks) = 2 /\ root = 1
    /\ ~result_valid(res[0][1])

\* the buffers of level l of process p that MPI_Reduce has taken
reduced(p, l) ==
    LET n == IF status[p] = failed_operation THEN Len(log[p]) - 1 ELSE Len(log[p])
    IN  {log[p][k][3] : k \in {i \in 1..n : log[p][i][1] = "reduce" /\ log[p][i][2] = l}}

\* C6: when reduce() has thrown failed_operation, the caller holds no valid
\* Result of which some buffers have been reduced and others have not: the
\* Result is the one it had before the call, or none or all of its buffers
\* have been reduced.
C6_NoPartialReduction ==
    \A p \in Ranks : \A l \in Levels(p) :
        (status[p] = failed_operation /\ result_valid(res[p][l]))
          => \/ res[p][l] = orig[p][l]
             \/ reduced(p, l) \in {{}, {Buffers[1], Buffers[2], Buffers[3]}}

IsPrefix(a, b) == Len(a) <= Len(b) /\ SubSeq(b, 1, Len(a)) = a

\* the calls reduce(r) of a binning Result with nlevel levels is to make
expected_calls(nlevel) ==
    [k \in 1..(3 * nlevel) |-> <<"reduce", ((k - 1) \div 3) + 1, Buffers[((k - 1) % 3) + 1]>>]
    \o <<(<<"commit", 0, "autocorr_result">>)>>
    \o [l \in 1..nlevel |-> <<"get_setup", l, "cov_result">>]

\* C7: reduce(r) of a binning Result with L levels hands the three buffers
\* of level 1, ..., level L to the reducer, then calls commit() once, from
\* autocorr_result::reduce and from no level's phase-split reduce, then
\* runs the post-commit of level 1, ..., level L.
C7_OneCommit ==
    kind = "autocorr" =>
      \A p \in Ranks :
        /\ IsPrefix(log[p], expected_calls(Len(orig[p])))
        /\ status[p] = "done" => log[p] = expected_calls(Len(orig[p]))
        /\ Cardinality({k \in 1..Len(log[p]) : log[p][k][1] = "commit"}) <= 1

\* a process has completed the reduction of a Result with two levels
C7_Witness ==
    /\ kind = "autocorr" /\ Cardinality(Ranks) = 2
    /\ \E p \in Ranks : status[p] = "done" /\ Len(orig[p]) = 2 /\ Len(log[p]) = 9

\* the step the process is in cannot return yet
Blocked(p) ==
    /\ Running(p)
    /\ \/ /\ Cur(p).op = "reduce"
          /\ sink_size(res[p][Cur(p).lvl], Cur(p).buf) # 0
          /\ ~MPI_Reduce_returns(p)
       \/ /\ Cur(p).op = "commit"
          /\ ~commit_returns({q \in Ranks : Running(q) /\ Cur(q).op = "commit"}, Ranks)

MaxBinAdds == 4
Granularities == {2, 3}

RECURSIVE ipow(_, _)
\* nextlevel_ after i calls of add_level, as a multiple of batch_size_
ipow(b, i) == IF i = 0 THEN 1 ELSE b * ipow(b, i - 1)

\* the accumulator of level i (counted from 0) in the heap that operator<<
\* works on
lvl_id(i) == ToString(i)
level_heap(level) ==
    [k \in {lvl_id(i - 1) : i \in 1..Len(level)} |->
        level[CHOOSE i \in 1..Len(level) : lvl_id(i - 1) = k].acc]

\* autocorr_acc::autocorr_acc(size, batch_size, granularity)
autocorr_acc(sz, batch_size, granularity) ==
    [size |-> sz, batch_size |-> batch_size, count |-> 0,
     nextlevel |-> batch_size, granularity |-> granularity,
     level |-> <<[acc |-> cov_acc(sz, batch_size), batch_size |-> batch_size]>>]

\* valid() that also takes an engine without levels for a live one
autocorr_acc_valid_always(e) == Len(e.level) >= 0

\* autocorr_acc::valid(): !level_.empty()
autocorr_acc_valid(e) == Len(e.level) > 0

\* add_level leaving nextlevel_ as it is
add_level_same_size(e) ==
    LET top == Len(e.level)
        linked == [e.level EXCEPT ![top].acc.uplevel = lvl_id(top)]
    IN  [e EXCEPT !.level = Append(linked, [acc |-> cov_acc(e.size, e.granularity),
                                            batch_size |-> e.nextlevel])]

\* autocorr_acc::add_level(): a coarser level on top of the hierarchy, fed by
\* the level below it
add_level(e) ==
    LET n == e.nextlevel * e.granularity
        top == Len(e.level)
        linked == [e.level EXCEPT ![top].acc.uplevel = lvl_id(top)]
    IN  [e EXCEPT !.nextlevel = n,
                  !.level = Append(linked, [acc |-> cov_acc(e.size, e.granularity),
                                            batch_size |-> n])]

\* operator<< opening a level with every sample
autocorr_acc_shl_eager(e, x) ==
    IF ~autocorr_acc_valid(e) THEN [eng |-> e, exc |-> finalized_accumulator]
    ELSE IF add_to_throws(x, e.size) THEN [eng |-> e, exc |-> size_mismatch]
    ELSE LET e1 == add_level([e EXCEPT !.count = e.count + 1])
             r == shl(level_heap(e1.level), lvl_id(0), x)
         IN  [eng |-> [e1 EXCEPT !.level = [i \in 1..Len(e1.level) |->
                                    [e1.level[i] EXCEPT !.acc = r.h[lvl_id(i - 1)]]]],
              exc |-> r.exc]

\* autocorr_acc::operator<<: the engine afterwards and the exception thrown
autocorr_acc_shl(e, x) ==
    IF ~autocorr_acc_valid(e) THEN [eng |-> e, exc |-> finalized_accumulator]
    ELSE IF add_to_throws(x, e.size) THEN [eng |-> e, exc |-> size_mismatch]
    ELSE LET c == e.count + 1
             e1 == IF c = e.nextlevel THEN add_level([e EXCEPT !.count = c])
                   ELSE [e EXCEPT !.count = c]
             r == shl(level_heap(e1.level), lvl_id(0), x)
         IN  [eng |-> [e1 EXCEPT !.level = [i \in 1..Len(e1.level) |->
                                    [e1.level[i] EXCEPT !.acc = r.h[lvl_id(i - 1)]]]],
              exc |-> r.exc]

\* autocorr_acc::result(): one Result per level
autocorr_acc_result(e) ==
    IF ~autocorr_acc_valid(e) THEN [eng |-> e, ret |-> NULL, exc |-> finalized_accumulator]
    ELSE [eng |-> e,
          ret |-> [level |-> [i \in 1..Len(e.level) |->
                                [store |-> result(e.level[i].acc).ret,
                                 batch_size |-> e.level[i].batch_size]]],
          exc |-> NoExc]

\* autocorr_acc::finalize() / finalize_to(): the levels move into the Result
autocorr_acc_finalize(e) ==
    IF ~autocorr_acc_valid(e) THEN [eng |-> e, ret |-> NULL, exc |-> finalized_accumulator]
    ELSE [eng |-> [e EXCEPT !.level = <<>>],
          ret |-> [level |-> [i \in 1..Len(e.level) |->
                                [store |-> finalize_to(e.level[i].acc).ret,
                                 batch_size |-> e.level[i].batch_size]]],
          exc |-> NoExc]

\* autocorr_acc::reset()
autocorr_acc_reset(e) == autocorr_acc(e.size, e.batch_size, e.granularity)

(***************************************************************************)
(* autocorr_result: the queries on the levels of a Result                  *)
(***************************************************************************)
\* a reliability threshold twice as large
min_samples_doubled == 2 * 256

default_min_samples == 256

nlevel(R) == Len(R.level)
level_count(R, i) == R.level[i + 1].store.count
\* var() of one level: the variances of the components
level_var(R, i) == [k \in 1..Len(R.level[i + 1].store.data) |-> R.level[i + 1].store.data2[k][k]]
\* count() read from the coarsest level instead of level 0
autocorr_result_count_coarsest(R) == level_count(R, nlevel(R) - 1)

\* autocorr_result::count(): level_[0].count()
autocorr_result_count(R) == level_count(R, 0)
\* autocorr_result::batch_size(level)
batch_size(R, i) == R.level[i + 1].batch_size

RECURSIVE find_level_below(_, _, _)
\* the scan of find_level from level i - 1 downwards
find_level_below(R, min_samples, i) ==
    IF i = 0 THEN [exc |-> out_of_range, ret |-> NULL]
    ELSE IF level_count(R, i - 1) >= min_samples THEN [exc |-> NoExc, ret |-> i - 1]
    ELSE find_level_below(R, min_samples, i - 1)

\* find_level returning the finest level that has min_samples
find_level_finest(R, min_samples) ==
    IF nlevel(R) > 0 /\ level_count(R, 0) >= min_samples THEN [exc |-> NoExc, ret |-> 0]
    ELSE [exc |-> out_of_range, ret |-> NULL]

\* find_level falling back to level 0 when no level has min_samples
find_level_or_zero(R, min_samples) ==
    LET f == find_level_below(R, min_samples, nlevel(R))
    IN  IF f.exc # NoExc THEN [exc |-> NoExc, ret |-> 0] ELSE f

\* autocorr_result::find_level(min_samples)
find_level(R, min_samples) == find_level_below(R, min_samples, nlevel(R))

RECURSIVE tau_from(_, _, _, _)
\* the components k, k + 1, ... of tau: (n * var(n) / var(1) - 1) / 2
tau_from(n, varn, var0, k) ==
    IF k > Len(var0) THEN <<>>
    ELSE <<QDiv(QSub(QDiv(QMul(n, varn[k]), var0[k]), Num(1)), Num(2))>>
         \o tau_from(n, varn, var0, k + 1)

\* autocorr_result::tau(): (n * var(n) / var(1) - 1) / 2 per component
tau(R) ==
    LET f == find_level(R, default_min_samples)
    IN  IF f.exc # NoExc THEN [exc |-> f.exc, ret |-> NULL]
        ELSE [exc |-> NoExc,
              ret |-> tau_from(Num(batch_size(R, f.ret)), level_var(R, f.ret),
                               level_var(R, 0), 1)]

RECURSIVE sq_error_from(_, _, _, _)
\* the components k, k + 1, ... of (1 + 2 * tau) * var(1) / N
sq_error_from(t, var0, N, k) ==
    IF k > Len(var0) THEN <<>>
    ELSE <<QDiv(QMul(QAdd(Num(1), QMul(Num(2), t[k])), var0[k]), N)>>
         \o sq_error_from(t, var0, N, k + 1)

\* autocorr_result::stderror(), squared: (1 + 2 * tau) * var(1) / N
sq_error(R) ==
    LET t == tau(R)
    IN  IF t.exc # NoExc THEN t
        ELSE [exc |-> NoExc,
              ret |-> sq_error_from(t.ret, level_var(R, 0),
                                    Num(autocorr_result_count(R)), 1)]

(***************************************************************************)
(* One binning engine, the Result its caller holds and the calls on both   *)
(***************************************************************************)
BinPre(e) == [valid |-> autocorr_acc_valid(e), count |-> e.count, nlevel |-> Len(e.level)]

BinInit ==
    /\ \E b \in BundleSizes, g \in Granularities : eng = autocorr_acc(1, b, g)
    /\ binres = NULL
    /\ accs = [id \in AccIds |-> cov_acc(1, 1)]
    /\ last = Call("construct", "eng", 0, NoExc, NULL, <<0, 0>>)
    /\ nadds = 0
    /\ seg = NULL /\ ar = NULL
    /\ track = [n |-> 0, threw |-> FALSE, xs |-> <<>>]
    /\ kind = "none" /\ root = 0
    /\ res = <<>> /\ orig = <<>> /\ prog = <<>> /\ status = <<>> /\ sent = <<>> /\ log = <<>>

\* eng << x
BinAdd(x) ==
    /\ nadds < MaxBinAdds
    /\ LET r == autocorr_acc_shl(eng, x)
       IN  /\ eng' = r.eng
           /\ last' = Call("add", "eng", Len(x), r.exc, NULL, BinPre(eng))
           /\ nadds' = IF r.eng # eng THEN nadds + 1 ELSE nadds
           /\ track' = [track EXCEPT !.n = IF r.exc = NoExc THEN @ + 1 ELSE @,
                                     !.xs = IF r.exc = NoExc THEN Append(@, x[1]) ELSE @]
    /\ UNCHANGED <<accs, binres, redVars, arVars>>

\* binres = eng.result()
BinResult ==
    LET r == autocorr_acc_result(eng)
    IN  /\ eng' = r.eng
        /\ binres' = IF r.exc = NoExc THEN r.ret ELSE binres
        /\ last' = Call("result", "eng", 0, r.exc, r.ret, BinPre(eng))
        /\ UNCHANGED <<accs, nadds, track, redVars, arVars>>

\* binres = eng.finalize()
BinFinalize ==
    LET r == autocorr_acc_finalize(eng)
    IN  /\ eng' = r.eng
        /\ binres' = IF r.exc = NoExc THEN r.ret ELSE binres
        /\ last' = Call("finalize", "eng", 0, r.exc, r.ret, BinPre(eng))
        /\ UNCHANGED <<accs, nadds, track, redVars, arVars>>

\* eng.reset()
BinReset ==
    /\ eng' = autocorr_acc_reset(eng)
    /\ last' = Call("reset", "eng", 0, NoExc, NULL, BinPre(eng))
    /\ track' = [track EXCEPT !.n = 0, !.xs = <<>>]
    /\ UNCHANGED <<accs, binres, nadds, redVars, arVars>>


\* binres.find_level(m)
FindLevel(m) ==
    /\ binres # NULL
    /\ LET f == find_level(binres, m)
       IN  last' = Call("find_level", "binres", m, f.exc,
                        IF f.exc = NoExc THEN [index |-> f.ret] ELSE NULL, <<0, 0>>)
    /\ UNCHANGED <<accs, nadds, track, redVars, binVars, arVars>>

\* binres.batch_size(i)
BatchSize(i) ==
    /\ binres # NULL
    /\ i < nlevel(binres)
    /\ last' = Call("batch_size", "binres", i, NoExc,
                   [batch_size |-> batch_size(binres, i)], <<0, 0>>)
    /\ UNCHANGED <<accs, nadds, track, redVars, binVars, arVars>>

\* binres.tau()
Tau ==
    /\ binres # NULL
    /\ LET t == tau(binres)
       IN  last' = Call("tau", "binres", 0, t.exc,
                        IF t.exc = NoExc THEN [tau |-> t.ret] ELSE NULL, <<0, 0>>)
    /\ UNCHANGED <<accs, nadds, track, redVars, binVars, arVars>>

\* binres.stderror()
Stderror ==
    /\ binres # NULL
    /\ LET t == sq_error(binres)
       IN  last' = Call("stderror", "binres", 0, t.exc,
                        IF t.exc = NoExc THEN [sq_error |-> t.ret] ELSE NULL, <<0, 0>>)
    /\ UNCHANGED <<accs, nadds, track, redVars, binVars, arVars>>

\* the values of min_samples a caller asks for
MinSamples == {0, 1, 2, 3, default_min_samples, default_min_samples + 1}

BinNext ==
    \/ \E x \in {<<v>> : v \in Vals} \cup {<<1, 2>>} : BinAdd(x)
    \/ BinResult
    \/ BinFinalize
    \/ BinReset
    \/ \E m \in MinSamples : FindLevel(m)
    \/ \E i \in 0..MaxBinAdds : BatchSize(i)
    \/ Tau
    \/ Stderror

SpecBin == BinInit /\ [][BinNext]_vars

(***************************************************************************)
(* cov_acc: what count() reports, and the conversions of the store         *)
(***************************************************************************)
\* no operator<< and no result() lowers store_->count() of a valid accumulator
CountNeverDrops ==
    (last'.op \in {"add", "result"} /\ last'.id = "acc"
        /\ valid(accs["acc"]) /\ valid(accs'["acc"]))
    => accs'["acc"].store.count >= accs["acc"].store.count

C12_RoundTrip ==
    (last.op = "result" /\ last.exc = NoExc /\ accs[last.id].store.count > 1)
    => LET X == accs[last.id].store
       IN  /\ last.ret = convert_to_mean(X)
           /\ convert_to_sum(last.ret) = X
           /\ last.ret.count = X.count
           /\ convert_to_sum(last.ret).count = X.count

C12_Witness ==
    /\ last.op = "result" /\ last.exc = NoExc
    /\ accs[last.id].store.count = 3
    /\ Len(accs[last.id].store.data) = 2
    /\ last.ret.data2[1][2] # Zero
    /\ convert_to_sum(last.ret) = accs[last.id].store

\* C13 as the specification states it: result() and finalize() on storage with
\* count 0 or 1 signal the degenerate case instead of returning a variance.
C13_DegenerateSignalled ==
    (last.op \in {"result", "finalize"} /\ last.pre[1] \in {0, 1})
    => last.exc # NoExc

(***************************************************************************)
(* autocorr_acc / autocorr_result: finalize, batch sizes and find_level    *)
(***************************************************************************)
\* C14: after finalize() on the binning engine valid() is false, and every add,
\* result and finalize on the finalized engine fails with finalized_accumulator
\* and leaves the engine as it was, without levels.
C14_FinalizedEngineFails ==
    /\ (last.id = "eng" /\ last.op = "finalize" /\ last.exc = NoExc)
          => ~autocorr_acc_valid(eng)
    /\ (last.id = "eng" /\ last.op \in {"add", "result", "finalize"} /\ ~last.pre.valid)
          => /\ last.exc = finalized_accumulator
             /\ last.ret = NULL
             /\ eng.level = <<>>
             /\ eng.count = last.pre.count

C14_Witness ==
    /\ last.id = "eng" /\ last.op = "add"
    /\ ~last.pre.valid /\ last.pre.count = 2
    /\ last.exc = finalized_accumulator
    /\ ~autocorr_acc_valid(eng)

\* C15: every level i of the engine has batch_size = batch_size0 *
\* granularity^i, the levels of a Result of the engine carry the same values,
\* and batch_size(i) on the Result reports them.
C15_BatchSizes ==
    /\ \A i \in 1..Len(eng.level) :
          eng.level[i].batch_size = eng.batch_size * ipow(eng.granularity, i - 1)
    /\ binres # NULL =>
          \A i \in 0..(nlevel(binres) - 1) :
             batch_size(binres, i) = eng.batch_size * ipow(eng.granularity, i)
    /\ last.op = "batch_size" =>
          last.ret.batch_size = eng.batch_size * ipow(eng.granularity, last.arg)

C15_Witness ==
    /\ last.op = "batch_size" /\ last.arg = 2 /\ last.ret.batch_size = 9
    /\ Len(eng.level) = 3
    /\ eng.level[3].batch_size = 9

\* the levels of R that hold at least m bundle means
Qualifying(R, m) == {i \in 0..(nlevel(R) - 1) : level_count(R, i) >= m}
Max(S) == CHOOSE x \in S : \A y \in S : y <= x

\* C16: when some level of the Result has count >= m, find_level(m) returns the
\* largest index of such a level, and the call leaves the Result as it was.
C16_FindLevelCoarsest ==
    /\ []((last.op = "find_level" /\ Qualifying(binres, last.arg) # {})
            => (last.exc = NoExc /\ last.ret.index = Max(Qualifying(binres, last.arg))))
    /\ [][(last'.op = "find_level" /\ Qualifying(binres, last'.arg) # {})
            => binres' = binres]_vars

C16_Witness ==
    /\ last.op = "find_level" /\ last.arg = 2
    /\ last.exc = NoExc /\ last.ret.index = 1
    /\ nlevel(binres) = 4
    /\ level_count(binres, 0) = 4 /\ level_count(binres, 1) = 2
    /\ level_count(binres, 2) = 1 /\ level_count(binres, 3) = 0

\* C17: when no level of the Result has count >= m, find_level(m) fails with
\* out_of_range and returns no index; the Result is unchanged and still has
\* its levels, level 0 included.
C17_FindLevelOutOfRange ==
    /\ []((last.op = "find_level" /\ Qualifying(binres, last.arg) = {})
            => (last.exc = out_of_range /\ last.ret = NULL))
    /\ [][(last'.op = "find_level" /\ Qualifying(binres, last'.arg) = {})
            => (binres' = binres /\ autocorr_valid(binres'.level))]_vars

C17_Witness ==
    /\ last.op = "find_level" /\ last.arg = default_min_samples
    /\ last.exc = out_of_range
    /\ nlevel(binres) = 4 /\ level_count(binres, 0) = 4

(***************************************************************************)
(* The Result of a long series.  A series is given by its length n, its    *)
(* mean v and the way the variance of its bundle means falls with the      *)
(* batch size: not at all ("corr"), as 1 / batch size ("iid"), or it is    *)
(* zero because all samples are the same ("const").                        *)
(***************************************************************************)
StreamKinds == {"const", "iid", "corr"}
RawCounts ==
    {0, 1, default_min_samples - 1, default_min_samples, default_min_samples + 1,
     2 * default_min_samples, 2 * default_min_samples + 1,
     4 * default_min_samples, 4 * default_min_samples + 1}

RECURSIVE nlevel_after(_, _, _)
\* level_.size() after n samples: one more level each time count_ reaches
\* nextlevel_
nlevel_after(n, nextlevel, granularity) ==
    IF n >= nextlevel THEN 1 + nlevel_after(n, nextlevel * granularity, granularity) ELSE 1

\* the variance of the means of bs samples of the series, component k
stream_var(knd, v, bs, k) ==
    IF knd = "const" THEN Zero
    ELSE IF knd = "iid" THEN QDiv(Num(k * v), Num(bs))
    ELSE Num(k * v)

\* the Result of the level with batch size bs after n samples: the store the
\* level has accumulated, converted by convert_to_mean
stream_level(sz, knd, v, n, bs) ==
    LET c == n \div bs
        mean == [k \in 1..sz |-> Num(v)]
        var == [i \in 1..sz |-> [j \in 1..sz |->
                   IF i = j THEN stream_var(knd, v, bs, i) ELSE Zero]]
        sums == [data |-> VecScale(mean, Num(c)),
                 data2 |-> MatAdd(MatScale(var, Num(IF c > 0 THEN c - 1 ELSE 0)),
                                  MatScale(outer(mean, mean), Num(c))),
                 count |-> c]
    IN  convert_to_mean(sums)

\* the Result finalize() returns after n samples of the series
stream_result(sz, b0, g, knd, v, n) ==
    [level |-> [i \in 1..nlevel_after(n, b0, g) |->
                  [store |-> stream_level(sz, knd, v, n, b0 * ipow(g, i - 1)),
                   batch_size |-> b0 * ipow(g, i - 1)]]]

TauInit ==
    /\ \E sz \in Sizes, b0 \in BundleSizes, g \in Granularities,
          knd \in StreamKinds, v \in Vals, n \in RawCounts :
          /\ binres = stream_result(sz, b0, g, knd, v, n)
          /\ eng = [autocorr_acc(sz, b0, g) EXCEPT
                       !.count = n,
                       !.nextlevel = b0 * ipow(g, nlevel_after(n, b0, g) - 1),
                       !.level = <<>>]
          /\ track = [n |-> n, threw |-> FALSE, stream |-> knd]
    /\ last = Call("finalize", "eng", 0, NoExc, binres, <<0, 0>>)
    /\ accs = [id \in AccIds |-> cov_acc(1, 1)]
    /\ nadds = 0
    /\ seg = NULL /\ ar = NULL
    /\ kind = "none" /\ root = 0
    /\ res = <<>> /\ orig = <<>> /\ prog = <<>> /\ status = <<>> /\ sent = <<>> /\ log = <<>>

TauNext ==
    \/ \E m \in MinSamples : FindLevel(m)
    \/ \E i \in 0..MaxBinAdds : BatchSize(i)
    \/ Tau
    \/ Stderror

SpecTau == TauInit /\ [][TauNext]_vars

(***************************************************************************)
(* autocorr_result: tau() and stderror()                                   *)
(***************************************************************************)
\* the level tau() is to use: the coarsest one with 256 bundle means
Chosen == Max(Qualifying(binres, 256))
\* n * var(n) / var(1) with n, var(n) of level i and var(1) of level 0
ratio(i, k) ==
    QDiv(QMul(Num(batch_size(binres, i)), level_var(binres, i)[k]), level_var(binres, 0)[k])

\* C18: when some level has 256 bundle means, tau() returns per component the
\* tau with 1 + 2 * tau = n * var(n) / var(1), where var(1) is the variance of
\* level 0 and n, var(n) are those of the coarsest level with count >= 256.
C18_TauAtCoarsestLevel ==
    (last.op = "tau" /\ Qualifying(binres, 256) # {})
    => /\ last.exc = NoExc
       /\ \A k \in DOMAIN last.ret.tau :
             QAdd(Num(1), QMul(Num(2), last.ret.tau[k])) = ratio(Chosen, k)

C18_Witness ==
    /\ last.op = "tau" /\ last.exc = NoExc
    /\ Qualifying(binres, 256) # {}
    /\ Chosen >= 1 /\ Chosen + 1 < nlevel(binres)
    /\ level_count(binres, Chosen + 1) > 1
    /\ \A k \in DOMAIN last.ret.tau :
          /\ IsFinite(last.ret.tau[k])
          /\ ratio(Chosen, k) # ratio(Chosen - 1, k)
          /\ ratio(Chosen, k) # ratio(Chosen + 1, k)
          /\ QAdd(Num(1), QMul(Num(2), last.ret.tau[k])) = ratio(Chosen, k)

\* the squared standard error of the chosen level itself: var(n) / count_n
level_sq_error(i, k) == QDiv(level_var(binres, i)[k], Num(level_count(binres, i)))

RECURSIVE raw_sum(_, _, _)
\* xs[a] + ... + xs[b]
raw_sum(xs, a, b) == IF a > b THEN Zero ELSE QAdd(Num(xs[a]), raw_sum(xs, a + 1, b))

\* the mean of the j-th run of n samples of xs
bundle_mean(xs, n, j) == QDiv(raw_sum(xs, (j - 1) * n + 1, j * n), Num(n))

RECURSIVE means_sum(_, _, _, _)
\* the sum of the bundle means a .. b of the runs of n samples
means_sum(xs, n, a, b) ==
    IF a > b THEN Zero ELSE QAdd(bundle_mean(xs, n, a), means_sum(xs, n, a + 1, b))

RECURSIVE means_sq_sum(_, _, _, _)
means_sq_sum(xs, n, a, b) ==
    IF a > b THEN Zero
    ELSE QAdd(QMul(bundle_mean(xs, n, a), bundle_mean(xs, n, a)),
              means_sq_sum(xs, n, a + 1, b))

\* n_i of level i (counted from 0)
level_n(i) == eng.batch_size * ipow(eng.granularity, i)

\* C21: after N adds level i holds floor(N / n_i) bundle means, the j-th the
\* mean of the samples (j-1) n_i + 1 .. j n_i, each folded once into the level
\* (sum and sum of squares) and handed once to level i + 1, whose bundle buffer
\* holds the means not yet in a complete bundle and is empty after a completion.
C21_LevelsHoldBundleMeans ==
    autocorr_acc_valid(eng) =>
       \A i \in 0..(Len(eng.level) - 1) :
          LET a == eng.level[i + 1].acc
              N == Len(track.xs)
              c == N \div level_n(i)
              below == IF i = 0 THEN N ELSE N \div level_n(i - 1)
              per == IF i = 0 THEN eng.batch_size ELSE eng.granularity
          IN  /\ eng.count = N
              /\ a.store.count = c
              /\ a.store.data = <<means_sum(track.xs, level_n(i), 1, c)>>
              /\ a.store.data2 = <<<<means_sq_sum(track.xs, level_n(i), 1, c)>>>>
              /\ a.current.count = below % per
              /\ a.current.sum =
                    <<IF i = 0 THEN raw_sum(track.xs, c * per + 1, N)
                      ELSE means_sum(track.xs, level_n(i - 1), c * per + 1, below)>>

C21_Witness ==
    /\ autocorr_acc_valid(eng)
    /\ track.xs = <<1, 1, 2, 2>>
    /\ eng.batch_size = 1 /\ eng.granularity = 2
    /\ last.op = "add" /\ last.exc = NoExc
    /\ eng.level[1].acc.store.count = 4 /\ eng.level[1].acc.store.data = <<Num(6)>>
    /\ eng.level[2].acc.store.count = 2 /\ eng.level[2].acc.store.data = <<Num(3)>>
    /\ eng.level[2].acc.store.data2 = <<<<Num(5)>>>>
    /\ eng.level[2].acc.current.count = 0 /\ eng.level[2].acc.current.sum = <<Zero>>
    /\ eng.level[3].acc.store.count = 1

\* in a valid engine level 0 exists and level i + 1 exists exactly when level i
\* has completed its first bundle; so nlevel <= 2 + log_granularity(N / batch_size0)
LevelsLazy ==
    autocorr_acc_valid(eng) =>
       /\ Len(eng.level) >= 1
       /\ \A i \in 0..Len(eng.level) :
             (Len(eng.level) > i + 1) <=> (eng.count >= level_n(i))
       /\ Len(eng.level) >= 2 => level_n(Len(eng.level) - 2) <= eng.count

\* C22: levels are created lazily at the coarse end: level 0 always exists,
\* level i + 1 exists iff N >= batch_size0 * granularity^i, which bounds the
\* number of levels by 2 + log_granularity(N / batch_size0), and the number of
\* levels never shrinks except by reset or finalize.
C22_LevelsLazyAndGrowing ==
    /\ []LevelsLazy
    /\ [][Len(eng'.level) < Len(eng.level) => last'.op \in {"reset", "finalize"}]_vars

C22_Witness ==
    /\ autocorr_acc_valid(eng)
    /\ last.op = "add" /\ last.exc = NoExc
    /\ last.pre.nlevel = 2 /\ Len(eng.level) = 3
    /\ eng.count = level_n(1)

(***************************************************************************)
(* cov_result::reduce and the Results it leaves                            *)
(***************************************************************************)
\* the calls reduce(r) of a cov_result makes on the reducer
cov_expected_calls ==
    <<(<<"reduce", 1, Buffers[1]>>), (<<"reduce", 1, Buffers[2]>>),
      (<<"reduce", 1, Buffers[3]>>), (<<"commit", 1, "cov_result">>),
      (<<"get_setup", 1, "cov_result">>)>>

\* the non-empty buffers of the sum form of R, as MPI_Reduce is to see them
sum_form_buffers(R) ==
    LET S == convert_to_sum(R)
    IN  (IF sink_size(S, Buffers[1]) # 0 THEN <<S.data>> ELSE <<>>)
        \o (IF sink_size(S, Buffers[2]) # 0 THEN <<S.data2>> ELSE <<>>)
        \o <<S.count>>

\* C23: reduce(r) of a cov_result registers the mean vector, the covariance
\* buffer and the sample count, all of the sum form of the local Result, then
\* calls commit() exactly once, then get_setup(), after which the root holds a
\* valid Result and every other process has released its storage; commit() is
\* never called before the three buffers are registered.
C23_ReduceOrder ==
    kind = "cov" =>
      \A p \in Ranks :
        /\ IsPrefix(log[p], cov_expected_calls)
        /\ IsPrefix(sent[p], sum_form_buffers(orig[p][1]))
        /\ \A k \in 1..Len(log[p]) : log[p][k][1] = "commit" => k = 4
        /\ status[p] = "done" =>
              /\ log[p] = cov_expected_calls
              /\ result_valid(res[p][1]) <=> am_root(p, root)

C23_Witness ==
    /\ kind = "cov"
    /\ \A p \in Ranks : status[p] = "done" /\ Len(sent[p]) = 3 /\ orig[p][1].count = 2
    /\ \E p \in Ranks : res[p][1] = NULL

\* r is the mean form of the sums d: mean = sum / count, covariance =
\* (sum of outer products - count * mean (x) mean) / (count - 1), same count
IsMeanForm(d, r) ==
    /\ r.count = d.count
    /\ DOMAIN r.data = DOMAIN d.data
    /\ \A i \in DOMAIN d.data : r.data[i] = QDiv(d.data[i], Num(d.count))
    /\ \A i \in DOMAIN d.data : \A j \in DOMAIN d.data :
          r.data2[i][j] =
             QDiv(QSub(d.data2[i][j],
                       QMul(Num(d.count), QMul(r.data[i], r.data[j]))),
                  Num(d.count - 1))

\* C24: for a storage with count > 1 the Result returned by result() and by
\* finalize(), and the Result the root holds after its post-commit, are the
\* mean form of the storage: mean = sum / count, covariance = (sum of outer
\* products - count * mean (x) mean) / (count - 1), count unchanged.
C24_ConvertToMean ==
    [][/\ (/\ last'.op \in {"result", "finalize"} /\ last'.id \in DOMAIN accs
           /\ last'.exc = NoExc /\ accs[last'.id].store.count > 1)
          => IsMeanForm(accs[last'.id].store, last'.ret)
       /\ \A p \in DOMAIN res :
            (/\ Running(p) /\ Cur(p).op = "post_commit" /\ prog'[p] # prog[p]
             /\ am_root(p, root) /\ res[p][Cur(p).lvl].count > 1)
            => IsMeanForm(res[p][Cur(p).lvl], res'[p][Cur(p).lvl])]_vars

C24_Witness ==
    /\ last.op \in {"result", "finalize"} /\ last.id = "acc" /\ last.exc = NoExc
    /\ last.pre[1] = 3
    /\ Len(last.ret.data) = 2
    /\ last.ret.count = 3
    /\ last.ret.data = <<Norm(4, 3), Norm(5, 3)>>
    /\ last.ret.data2[1][2] = Norm(-1, 3)

\* C25: reset() on a finalized accumulator returns it to the state of a newly
\* constructed accumulator of the same size and bundle size (zeroed storage,
\* empty bundle buffer), the size of an accumulator never changes, and the add,
\* result or finalize that follows such a reset does not fail with
\* FinalizedAccumulator (an add that hands a bundle to a finalized coarser
\* accumulator set aside: that one fails on a new accumulator as well).
C25_ResetRevives ==
    [][/\ \A id \in DOMAIN accs : size(accs'[id]) = size(accs[id])
       /\ (last'.op = "reset" /\ ~valid(accs[last'.id]))
          => LET a == accs[last'.id]
             IN  accs'[last'.id] =
                    [cov_acc(size(a), a.current.target) EXCEPT !.uplevel = a.uplevel]
       /\ (/\ last.op = "reset" /\ last.pre[1] = -1 /\ last'.id = last.id
           /\ last'.op \in {"add", "result", "finalize"}
           /\ LET up == accs[last.id].uplevel
              IN  up = nullptr \/ last'.op # "add" \/ valid(accs[up]))
          => last'.exc # finalized_accumulator]_vars

C25_Witness ==
    /\ last.op = "reset" /\ last.id = "acc" /\ last.pre[1] = -1
    /\ valid(accs["acc"]) /\ size(accs["acc"]) = 2
    /\ accs["acc"].store = cov_data(2)
    /\ accs["acc"].current.count = 0

\* C26: on a cov_result whose storage has been released, reduce with any
\* combination of phases and stderror fail with FinalizedAccumulator and leave
\* the Result released; such a reduce makes no call on the transport: the log
\* of transport calls and the buffers given to MPI_Reduce stay as they were.
C26_InvalidResultFails ==
    [][/\ \A p \in DOMAIN res :
            (kind = "cov" /\ ~result_valid(res[p][1])) =>
               /\ ~result_valid(res'[p][1])
               /\ log'[p] = log[p] /\ sent'[p] = sent[p]
               /\ status'[p] # status[p] =>
                     \/ status'[p] = "running" /\ Len(prog'[p]) >= 1
                                               /\ Head(prog'[p]).op = "check_valid"
                     \/ status[p] = "running" /\ status'[p] = finalized_accumulator
       /\ (last' # last /\ last'.op = "stderror" /\ ~result_valid(res[last'.arg][1]))
          => last'.exc = finalized_accumulator /\ res' = res]_vars

C26_Witness ==
    /\ kind = "cov"
    /\ \E p \in Ranks :
         /\ ~am_root(p, root)
         /\ status[p] = finalized_accumulator
         /\ res[p][1] = NULL
         /\ log[p] = cov_expected_calls
         /\ last.op = "stderror" /\ last.arg = p /\ last.exc = finalized_accumulator

cov_acc_copy(other) ==
    [store |-> IF other.store # NULL THEN other.store ELSE NULL,
     current |-> other.current,
     uplevel |-> other.uplevel]

\* cov_acc::operator=(const cov_acc &other)
cov_acc_assign(a, other) ==
    [a EXCEPT !.store = IF other.store # NULL THEN other.store ELSE NULL,
              !.current = other.current,
              !.uplevel = other.uplevel]

CopyInit ==
    /\ \E b \in BundleSizes, bu \in BundleSizes :
          accs = [id \in AccIds |-> IF id = "acc" THEN cov_acc(1, b) ELSE cov_acc(1, bu)]
    /\ last = Call("construct", "acc", 0, NoExc, NULL, <<0, 0>>)
    /\ nadds = 0
    /\ seg = NULL /\ ar = NULL
    /\ track = [n |-> 0, threw |-> FALSE]
    /\ kind = "none" /\ root = 0
    /\ res = <<>> /\ orig = <<>> /\ prog = <<>> /\ status = <<>> /\ sent = <<>> /\ log = <<>>
    /\ eng = NULL /\ binres = NULL

\* cov_acc copy(acc)
CopyConstruct ==
    /\ "copy" \notin DOMAIN accs
    /\ accs' = [id \in DOMAIN accs \cup {"copy"} |->
                  IF id = "copy" THEN cov_acc_copy(accs["acc"]) ELSE accs[id]]
    /\ last' = Call("copy", "copy", 0, NoExc, NULL, Pre(accs["acc"]))
    /\ UNCHANGED <<nadds, track, redVars, binVars, arVars>>

\* copy = acc
CopyAssign ==
    /\ "copy" \in DOMAIN accs
    /\ accs' = [accs EXCEPT !["copy"] = cov_acc_assign(@, accs["acc"])]
    /\ last' = Call("assign", "copy", 0, NoExc, NULL, Pre(accs["acc"]))
    /\ UNCHANGED <<nadds, track, redVars, binVars, arVars>>

CopyNext ==
    \/ \E id \in DOMAIN accs \ {"up"}, v \in Vals : Add(id, <<v>>)
    \/ \E id \in DOMAIN accs \ {"up"} : Finalize(id)
    \/ \E id \in DOMAIN accs \ {"up"} : Reset(id)
    \/ SetUplevel
    \/ CopyConstruct
    \/ CopyAssign

SpecCopy == CopyInit /\ [][CopyNext]_vars

\* C27: an add, reset or finalize on a copy leaves the source's storage and
\* bundle buffer and the accumulator the source's uplevel link leads to
\* unchanged, and one on the source leaves the copy's storage and bundle
\* buffer unchanged.
C27_CopySharesNothing ==
    [][("copy" \in DOMAIN accs /\ last'.op \in {"add", "reset", "finalize"})
       => /\ last'.id = "copy" =>
               /\ accs'["acc"] = accs["acc"]
               /\ accs["acc"].uplevel # nullptr =>
                     accs'[accs["acc"].uplevel] = accs[accs["acc"].uplevel]
          /\ last'.id = "acc" =>
               /\ accs'["copy"].store = accs["copy"].store
               /\ accs'["copy"].current = accs["copy"].current]_vars

(***************************************************************************)
(* hdf5::archive: path segments                                            *)
(* A std::string is the sequence of the codes of its characters.           *)
(***************************************************************************)
MaxSegLen == 5

\* the characters the archive's path functions look for
Ch == [amp |-> 38, hash |-> 35, semi |-> 59, slash |-> 47, dot |-> 46,
       zero |-> 48, four |-> 52, seven |-> 55, a |-> 97, b |-> 98]

bad_lexical_cast == "bad_lexical_cast"

\* std::string::npos
npos == SizeTMod - 1

Min(S) == CHOOSE x \in S : \A y \in S : x <= y

\* r.find_first_of(c, pos), positions counted from 0
find_first_of(r, c, pos) ==
    LET hits == {i \in 0..(Len(r) - 1) : i >= pos /\ r[i + 1] = c}
    IN  IF hits = {} THEN npos ELSE Min(hits)

\* r.find_last_of(c)
find_last_of(r, c) ==
    LET hits == {i \in 0..(Len(r) - 1) : r[i + 1] = c}
    IN  IF hits = {} THEN npos ELSE Max(hits)

\* r.substr(pos, n) for pos <= r.size(); std::out_of_range beyond that
substr_throws(r, pos) == pos > Len(r)
substr(r, pos, n) == SubSeq(r, pos + 1, IF pos + n > Len(r) THEN Len(r) ELSE pos + n)

RECURSIVE lexical_cast_string(_)
\* boost::lexical_cast<std::string, int>(n), n >= 0: the decimal digits
lexical_cast_string(n) ==
    IF n < 10 THEN <<Ch.zero + n>>
    ELSE lexical_cast_string(n \div 10) \o <<Ch.zero + (n % 10)>>

\* boost::lexical_cast<int>(str) throws bad_lexical_cast unless str is a number
\* that fits an int (taken here as: of at most nine digits)
lexical_cast_int_throws(str) ==
    \/ str = <<>>
    \/ Len(str) > 9
    \/ \E k \in 1..Len(str) : str[k] < Ch.zero \/ str[k] > Ch.zero + 9

RECURSIVE lexical_cast_int(_)
lexical_cast_int(str) ==
    IF str = <<>> THEN 0
    ELSE 10 * lexical_cast_int(SubSeq(str, 1, Len(str) - 1)) + (str[Len(str)] - Ch.zero)

RECURSIVE encode_loop(_, _, _)
\* for (pos = ...; pos < npos; pos = r.find_first_of(c, pos + 1))
\*     r = r.substr(0, pos) + "&#" + lexical_cast<string, int>(c) + ";" + r.substr(pos + 1)
encode_loop(r, c, pos) ==
    IF ~(pos < npos) THEN r
    ELSE LET r1 == substr(r, 0, pos) \o <<Ch.amp, Ch.hash>> \o lexical_cast_string(c)
                   \o <<Ch.semi>> \o substr(r, pos + 1, npos)
         IN  encode_loop(r1, c, find_first_of(r1, c, pos + 1))

\* encode_segment escaping '/' before '&'
encode_segment_slash_first(s) ==
    LET r1 == encode_loop(s, Ch.slash, find_first_of(s, Ch.slash, 0))
    IN  encode_loop(r1, Ch.amp, find_first_of(r1, Ch.amp, 0))

\* archive::encode_segment: chars[] = {'&', '/'}, one pass for each
encode_segment(s) ==
    LET r1 == encode_loop(s, Ch.amp, find_first_of(s, Ch.amp, 0))
    IN  encode_loop(r1, Ch.slash, find_first_of(r1, Ch.slash, 0))

RECURSIVE decode_loop(_, _)
\* for (pos = ...; pos < npos; pos = r.find_first_of('&', pos + 1))
\*     r = r.substr(0, pos) + static_cast<char>(lexical_cast<int>(r.substr(pos + 2, semi - pos - 2)))
\*         + r.substr(semi + 1)          with semi = r.find_first_of(';', pos)
decode_loop(r, pos) ==
    IF ~(pos < npos) THEN [exc |-> NoExc, ret |-> r]
    ELSE LET semi == find_first_of(r, Ch.semi, pos)
             n == (semi - pos - 2) % SizeTMod
             after == (semi + 1) % SizeTMod
         IN  IF substr_throws(r, pos + 2) THEN [exc |-> out_of_range, ret |-> r]
             ELSE IF lexical_cast_int_throws(substr(r, pos + 2, n))
                  THEN [exc |-> bad_lexical_cast, ret |-> r]
             ELSE LET r1 == substr(r, 0, pos)
                            \o <<lexical_cast_int(substr(r, pos + 2, n)) % 256>>
                            \o substr(r, after, npos)
                  IN  decode_loop(r1, find_first_of(r1, Ch.amp, pos + 1))

\* archive::decode_segment
decode_segment(s) == decode_loop(s, find_first_of(s, Ch.amp, 0))

\* the segments that are encoded: the strings of up to MaxSegLen characters
\* over & / # 4 7 ;
SegInit ==
    /\ \E s \in UNION {[1..n -> {Ch.amp, Ch.slash, Ch.hash, Ch.four, Ch.seven, Ch.semi}] :
                        n \in 0..MaxSegLen} :
          seg = [s |-> s, stage |-> "raw", enc |-> <<>>,
                 dec |-> [exc |-> NoExc, ret |-> <<>>]]
    /\ ar = NULL
    /\ accs = [id \in AccIds |-> cov_acc(1, 1)]
    /\ last = Call("construct", "archive", 0, NoExc, NULL, <<0, 0>>)
    /\ nadds = 0
    /\ track = [n |-> 0, threw |-> FALSE]
    /\ kind = "none" /\ root = 0
    /\ res = <<>> /\ orig = <<>> /\ prog = <<>> /\ status = <<>> /\ sent = <<>> /\ log = <<>>
    /\ eng = NULL /\ binres = NULL

\* enc = ar.encode_segment(s)
EncodeSegment ==
    /\ seg.stage = "raw"
    /\ seg' = [seg EXCEPT !.stage = "encoded", !.enc = encode_segment(seg.s)]
    /\ UNCHANGED <<accVars, track, redVars, binVars, ar>>

\* dec = ar.decode_segment(enc)
DecodeSegment ==
    /\ seg.stage = "encoded"
    /\ seg' = [seg EXCEPT !.stage = "decoded", !.dec = decode_segment(seg.enc)]
    /\ UNCHANGED <<accVars, track, redVars, binVars, ar>>

SegNext == EncodeSegment \/ DecodeSegment

SpecSeg == SegInit /\ [][SegNext]_vars

RECURSIVE escaped(_)
\* s with every '&' replaced by "&#38;" and every '/' by "&#47;"
escaped(s) ==
    IF s = <<>> THEN <<>>
    ELSE (IF Head(s) = Ch.amp THEN <<Ch.amp, Ch.hash, 51, 56, Ch.semi>>
          ELSE IF Head(s) = Ch.slash THEN <<Ch.amp, Ch.hash, Ch.four, Ch.seven, Ch.semi>>
          ELSE <<Head(s)>>) \o escaped(Tail(s))

\* C29: encode_segment(s) is s with every '&' and every '/' replaced by its
\* "&#<code>;" escape and so has no '/'; decode_segment of it returns s without
\* an exception, also when s itself contains an escape sequence.
C29_SegmentRoundTrip ==
    /\ seg.stage \in {"encoded", "decoded"} =>
          /\ seg.enc = escaped(seg.s)
          /\ \A k \in 1..Len(seg.enc) : seg.enc[k] # Ch.slash
    /\ seg.stage = "decoded" => seg.dec = [exc |-> NoExc, ret |-> seg.s]

C29_Witness ==
    /\ seg.stage = "decoded"
    /\ seg.s = <<Ch.amp, Ch.hash, Ch.four, Ch.seven, Ch.semi>>
    /\ seg.enc = <<Ch.amp, Ch.hash, 51, 56, Ch.semi, Ch.hash, Ch.four, Ch.seven, Ch.semi>>
    /\ seg.dec.ret = seg.s

(***************************************************************************)
(* hdf5::archive: the context and serialize of non-native objects          *)
(***************************************************************************)
MaxDepth == 2

\* the return statement of the ".." branch of complete_path
complete_path_tail(s, p, i) ==
    IF substr_throws(p, i) THEN [exc |-> out_of_range, ret |-> <<>>]
    ELSE [exc |-> NoExc,
          ret |-> s \o (IF Len(s) = 1 \/ Len(substr(p, i, npos)) = 0 THEN <<>> ELSE <<Ch.slash>>)
                    \o substr(p, i, npos)]

RECURSIVE complete_path_up(_, _, _)
\* for (; s.size() && p.substr(i, 2) == ".."; i += 3) s = s.substr(0, s.find_last_of('/'))
complete_path_up(s, p, i) ==
    IF Len(s) = 0 THEN complete_path_tail(s, p, i)
    ELSE IF substr_throws(p, i) THEN [exc |-> out_of_range, ret |-> <<>>]
    ELSE IF substr(p, i, 2) = <<Ch.dot, Ch.dot>>
         THEN complete_path_up(substr(s, 0, find_last_of(s, Ch.slash)), p, i + 3)
    ELSE complete_path_tail(s, p, i)

\* archive::complete_path(p) in the context _context
complete_path(context, p) ==
    IF Len(p) > 0 /\ p[1] = Ch.slash THEN [exc |-> NoExc, ret |-> p]
    ELSE IF Len(p) < 2 \/ substr(p, 0, 2) # <<Ch.dot, Ch.dot>>
         THEN [exc |-> NoExc,
               ret |-> context \o (IF Len(context) = 1 \/ Len(p) = 0 THEN <<>> ELSE <<Ch.slash>>)
                       \o p]
    ELSE complete_path_up(context, p, 0)

\* the paths objects are serialized at: "a", "/b", "../a", "..", "../", ""
SerPaths == {<<Ch.a>>, <<Ch.slash, Ch.b>>, <<Ch.dot, Ch.dot, Ch.slash, Ch.a>>,
             <<Ch.dot, Ch.dot>>, <<Ch.dot, Ch.dot, Ch.slash>>, <<>>}

\* serialize_impl(ar, p, v, false_) up to the call of v.serialize(ar): c is the
\* local variable of the call; before is the context the call was made in
serialize_impl_enter(a, p) ==
    LET cp == complete_path(a.context, p)
    IN  IF cp.exc # NoExc THEN [ar |-> a, exc |-> cp.exc]
        ELSE [ar |-> [a EXCEPT !.context = cp.ret,
                               !.stack = Append(@, [c |-> a.context, p |-> p]),
                               !.before = Append(@, a.context)],
              exc |-> NoExc]

\* serialize_impl that does not set the context back
serialize_impl_exit_keep(a) ==
    [a EXCEPT !.stack = SubSeq(@, 1, Len(@) - 1),
              !.before = SubSeq(@, 1, Len(@) - 1)]

\* serialize_impl after v.serialize(ar) has returned: ar.set_context(c)
serialize_impl_exit(a) ==
    [a EXCEPT !.context = a.stack[Len(a.stack)].c,
              !.stack = SubSeq(@, 1, Len(@) - 1),
              !.before = SubSeq(@, 1, Len(@) - 1)]

\* an exception leaves v.serialize(ar) and serialize_impl: nothing sets the
\* context back
serialize_impl_unwind(a) ==
    [a EXCEPT !.stack = SubSeq(@, 1, Len(@) - 1),
              !.before = SubSeq(@, 1, Len(@) - 1),
              !.threw = TRUE]

SerInit ==
    /\ ar = [context |-> <<>>, stack |-> <<>>, before |-> <<>>, base |-> <<>>,
             threw |-> FALSE]
    /\ seg = NULL
    /\ accs = [id \in AccIds |-> cov_acc(1, 1)]
    /\ last = Call("construct", "archive", 0, NoExc, NULL, <<0, 0>>)
    /\ nadds = 0
    /\ track = [n |-> 0, threw |-> FALSE]
    /\ kind = "none" /\ root = 0
    /\ res = <<>> /\ orig = <<>> /\ prog = <<>> /\ status = <<>> /\ sent = <<>> /\ log = <<>>
    /\ eng = NULL /\ binres = NULL

\* serialize(ar, p, v) of a non-native v is called, by the user or by the
\* v.serialize(ar) that is running; after an exception the user sets the
\* context anew before serializing again
SerializeEnter(p) ==
    /\ Len(ar.stack) < MaxDepth
    /\ ~ar.threw
    /\ LET r == serialize_impl_enter(ar, p)
       IN  /\ ar' = r.ar
           /\ last' = Call("serialize", "archive", p, r.exc, NULL, <<Len(ar.stack), 0>>)
    /\ UNCHANGED <<accs, nadds, track, redVars, binVars, seg>>

\* the innermost v.serialize(ar) returns
SerializeReturn ==
    /\ Len(ar.stack) > 0
    /\ ar' = serialize_impl_exit(ar)
    /\ last' = Call("return", "archive", ar.stack[Len(ar.stack)].p, NoExc, NULL,
                    <<Len(ar.stack), 0>>)
    /\ UNCHANGED <<accs, nadds, track, redVars, binVars, seg>>

\* the innermost v.serialize(ar) throws
SerializeThrows ==
    /\ Len(ar.stack) > 0
    /\ ar' = serialize_impl_unwind(ar)
    /\ last' = Call("throw", "archive", ar.stack[Len(ar.stack)].p, "exception", NULL,
                    <<Len(ar.stack), 0>>)
    /\ UNCHANGED <<accs, nadds, track, redVars, binVars, seg>>

\* ar.set_context(c), by the user or by the v.serialize(ar) that is running
SetContext(c) ==
    /\ ar' = [ar EXCEPT !.context = c,
                        !.base = IF Len(ar.stack) = 0 THEN c ELSE @,
                        !.threw = IF Len(ar.stack) = 0 THEN FALSE ELSE @]
    /\ last' = Call("set_context", "archive", c, NoExc, NULL, <<Len(ar.stack), 0>>)
    /\ UNCHANGED <<accs, nadds, track, redVars, binVars, seg>>

SerNext ==
    \/ \E p \in SerPaths : SerializeEnter(p)
    \/ SerializeReturn
    \/ SerializeThrows
    \/ \E c \in {<<Ch.slash>>, <<Ch.slash, Ch.a>>} : SetContext(c)    \* "/", "/a"

SpecSer == SerInit /\ [][SerNext]_vars

\* C30: serialize(ar, p, v) of a non-native v starts v.serialize(ar) with the
\* context set to complete_path(p), taken in the context of the call, and when
\* v.serialize(ar) returns the context is again the one before the call; so
\* whenever all serializations have returned, get_context() is what the caller
\* had set.
C30_ContextRestored ==
    /\ [][/\ (last'.op = "serialize" /\ last'.exc = NoExc /\ last'.pre[1] = Len(ar.stack)
                /\ Len(ar'.stack) = Len(ar.stack) + 1)
             => ar'.context = complete_path(ar.context, last'.arg).ret
          /\ (last'.op = "return" /\ last'.pre[1] = Len(ar.stack)
                /\ Len(ar'.stack) = Len(ar.stack) - 1)
             => ar'.context = ar.before[Len(ar.before)]]_vars
    /\ []((Len(ar.stack) = 0 /\ ~ar.threw) => ar.context = ar.base)

C30_Witness ==
    /\ last.op = "return" /\ last.pre[1] = 1
    /\ last.arg = <<Ch.dot, Ch.dot, Ch.slash, Ch.a>>
    /\ Len(ar.stack) = 0 /\ ~ar.threw
    /\ ar.base = <<Ch.slash, Ch.a>>
    /\ ar.context = <<Ch.slash, Ch.a>>

====
